---------------------------- MODULE Spec2Model ----------------------------
(***************************************************************************)
(* Intel HEX utilities: validateHexFile, calculateFlashPagesUsed           *)
(* (parseIntelHex + computePagesUsed) and extractBootloaderVersionFromHex  *)
(* (parseIntelHexToMap + findPatternAddress).                              *)
(*                                                                         *)
(* A line is a sequence of one-character strings, as std::getline returns  *)
(* it (without the '\n').  A uint32_t address is the pair <<hi, lo>> of    *)
(* its 16-bit halves: the model checker's integers are 32-bit signed, so   *)
(* the pair keeps the full unsigned 32-bit width and its wrap-around.      *)
(* String positions passed to the operators are 0-based, as in the source. *)
(* The input lines hold no '+', '-', 'x' or 'X', the only characters       *)
(* std::stoi treats specially that Stoi below does not model.              *)
(***************************************************************************)
EXTENDS Integers, Sequences, FiniteSets, TLC

VARIABLES
    file,               \* the lines of the file on disk
    opens,              \* whether std::ifstream can open it
    pageSize,           \* flashPageSize argument of calculateFlashPagesUsed
    pc,                 \* position of the caller / of the running function
    lineNum,            \* validateHexFile: lines read so far
    eofSeen, extAddr, writtenAddresses, errorOut, vResult,   \* validateHexFile
    mLineNum, mem, extLinear, sawEOF, mResult,                \* parseIntelHexToMap
    sigAddr, major, minor, xResult,                           \* extractBootloaderVersionFromHex
    pPos, flashData, extendedLinearAddress, pResult, pagesUsed  \* calculateFlashPagesUsed

vars == <<file, opens, pageSize, pc, lineNum,
          eofSeen, extAddr, writtenAddresses, errorOut, vResult,
          mLineNum, mem, extLinear, sawEOF, mResult,
          sigAddr, major, minor, xResult,
          pPos, flashData, extendedLinearAddress, pResult, pagesUsed>>

inVars == <<file, opens>>
vVars == <<lineNum, eofSeen, extAddr, writtenAddresses, errorOut, vResult>>
mVars == <<mLineNum, mem, extLinear, sawEOF, mResult>>
xVars == <<sigAddr, major, minor, xResult>>
pVars == <<pageSize, pPos, flashData, extendedLinearAddress, pResult, pagesUsed>>

-----------------------------------------------------------------------------
(* Characters and integer helpers *)

Min(a, b) == IF a < b THEN a ELSE b

HexDigits == <<"0", "1", "2", "3", "4", "5", "6", "7",
               "8", "9", "A", "B", "C", "D", "E", "F">>

LowerHex == <<"a", "b", "c", "d", "e", "f">>

HexChars == {HexDigits[i] : i \in 1..16} \cup {LowerHex[i] : i \in 1..6}

\* std::isxdigit
isHexChar(c) == c \in HexChars

\* std::isspace, as strtol skips it in front of the digits
SpaceChars == {" ", "\t", "\r", "\n", "\f"}

IsSpace(c) == c \in SpaceChars

\* value of each hexadecimal digit, as strtol reads it
HexValues ==
    [c \in HexChars |->
        IF \E i \in 1..16 : HexDigits[i] = c
        THEN (CHOOSE i \in 1..16 : HexDigits[i] = c) - 1
        ELSE (CHOOSE i \in 1..6 : LowerHex[i] = c) + 9]

HexVal(c) == HexValues[c]

\* std::string::substr(pos, n); out_of_range is raised when pos > size
SubstrThrows(s, pos) == pos > Len(s)

Substr(s, pos, n) == SubSeq(s, pos + 1, Min(pos + n, Len(s)))

RECURSIVE SkipSpace(_)
SkipSpace(s) ==
    IF s # <<>> /\ IsSpace(Head(s)) THEN SkipSpace(Tail(s)) ELSE s

RECURSIVE DigitPrefix(_)
DigitPrefix(s) ==
    IF s # <<>> /\ isHexChar(Head(s)) THEN <<Head(s)>> \o DigitPrefix(Tail(s)) ELSE <<>>

RECURSIVE DigitsValue(_, _)
DigitsValue(s, acc) ==
    IF s = <<>> THEN acc ELSE DigitsValue(Tail(s), acc * 16 + HexVal(Head(s)))

\* std::stoi(s, nullptr, 16): leading white space is skipped, the longest run
\* of hex digits is converted, and std::invalid_argument is raised when there
\* is none
StoiThrows(s) == DigitPrefix(SkipSpace(s)) = <<>>

Stoi(s) == DigitsValue(DigitPrefix(SkipSpace(s)), 0)

parseHexByteThrows(str, pos) == SubstrThrows(str, pos) \/ StoiThrows(Substr(str, pos, 2))

parseHexByte(str, pos) == Stoi(Substr(str, pos, 2)) % 256

\* static_cast<uint16_t>(std::stoi(line.substr(pos, 4), nullptr, 16))
parseHexWordThrows(str, pos) == SubstrThrows(str, pos) \/ StoiThrows(Substr(str, pos, 4))

parseHexWord(str, pos) == Stoi(Substr(str, pos, 4)) % 65536

RECURSIVE trimTrailing(_)
trimTrailing(line) ==
    IF line # <<>> /\ line[Len(line)] \in {" ", "\r", "\n"}
    THEN trimTrailing(SubSeq(line, 1, Len(line) - 1))
    ELSE line

RECURSIVE rtrim(_)
rtrim(s) ==
    IF s # <<>> /\ s[Len(s)] \in {"\r", "\n", " ", "\t"}
    THEN rtrim(SubSeq(s, 1, Len(s) - 1))
    ELSE s

\* the loop of validateLineChecksum from index i with the uint8_t sum so far
RECURSIVE ChecksumLoop(_, _, _)
ChecksumLoop(line, i, sum) ==
    IF i < Len(line)
    THEN ChecksumLoop(line, i + 2, (sum + parseHexByte(line, i)) % 256)
    ELSE sum

\* the sum started after the byte count
validateLineChecksum_SkipCount(line) == ChecksumLoop(line, 3, 0) = 0

validateLineChecksum(line) == ChecksumLoop(line, 1, 0) = 0

-----------------------------------------------------------------------------
(* uint32_t arithmetic on <<hi, lo>> *)

\* (ext << 16) | address16, ext already narrowed to 16 bits
AbsAddr_NoExt(ext, address) == <<0, address>>

AbsAddr(ext, address) == <<ext % 65536, address>>

\* a + i with the sum kept inside the 64 KiB block of a
AddU32_InBlock(a, i) == <<a[1], (a[2] + i) % 65536>>

\* a + i modulo 2^32, 0 <= i < 65536
AddU32(a, i) ==
    LET s == a[2] + i
    IN  <<(a[1] + s \div 65536) % 65536, s % 65536>>

LessU32(a, b) == a[1] < b[1] \/ (a[1] = b[1] /\ a[2] < b[2])


\* std::to_string of a size_t: decimal digits, most significant first
RECURSIVE to_string(_)
to_string(n) ==
    IF n < 10 THEN <<HexDigits[n + 1]>>
    ELSE to_string(n \div 10) \o <<HexDigits[(n % 10) + 1]>>

\* the digits of n in base 16, upper case, without leading zeros
RECURSIVE HexUpper(_)
HexUpper(n) ==
    IF n < 16 THEN <<HexDigits[n + 1]>>
    ELSE HexUpper(n \div 16) \o <<HexDigits[(n % 16) + 1]>>

HexUpper4(n) ==
    <<HexDigits[(n \div 4096) + 1], HexDigits[((n \div 256) % 16) + 1],
      HexDigits[((n \div 16) % 16) + 1], HexDigits[(n % 16) + 1]>>

\* ss << std::hex << std::uppercase << a, for a uint32_t a = <<hi, lo>>
HexUpperU32(a) ==
    IF a[1] = 0 THEN HexUpper(a[2]) ELSE HexUpper(a[1]) \o HexUpper4(a[2])

-----------------------------------------------------------------------------
(* validateHexFile *)

\* an error message: fixed text, a formatted number, fixed text
Msg(pre, arg, post) == [pre |-> pre, arg |-> arg, post |-> post]

\* errorOut as the caller passes it in
PriorError == Msg("(caller's value)", <<>>, "")

OpenError == Msg("Failed to open file: ", <<>>, "")

ColonError(n) == Msg("Line ", to_string(n), " does not start with ':'")

HexCharError(n) == Msg("Invalid hex character at line ", to_string(n), "")

ShortError(n) == Msg("Line ", to_string(n), " too short.")

LengthError(n) == Msg("Incorrect line length at line ", to_string(n), "")

\* the report with lines counted from 0
ChecksumError_FromZero(n) == Msg("Checksum mismatch at line ", to_string(n - 1), "")

ChecksumError(n) == Msg("Checksum mismatch at line ", to_string(n), "")

TypeError(n) == Msg("Unknown record type at line ", to_string(n), "")

MultipleEofError == Msg("Multiple EOF records detected.", <<>>, "")

OverlapError(a) == Msg("Overlapping data at address 0x", HexUpperU32(a), "")

MissingEofError == Msg("Missing EOF record.", <<>>, "")

\* the length without the two checksum characters
expectedLength_NoChecksum(byteCount) == 9 + byteCount * 2

\* size_t expectedLength = 9 + byteCount * 2 + 2
expectedLength(byteCount) == 9 + byteCount * 2 + 2

\* Lines 162-189 on the trimmed line: the first failing check among line
\* start, hex characters, minimum length and expected length; <<>> when the
\* line passes them all
SyntaxError(line, n) ==
    IF line = <<>> \/ line[1] # ":" THEN <<ColonError(n)>>
    ELSE IF \E i \in 2..Len(line) : ~isHexChar(line[i]) THEN <<HexCharError(n)>>
    ELSE IF Len(line) < 11 THEN <<ShortError(n)>>
    ELSE IF Len(line) # expectedLength(parseHexByte(line, 1)) THEN <<LengthError(n)>>
    ELSE <<>>

\* Lines 191-201: checksum, then record type
IntegrityError_TypeFirst(line, n) ==
    IF parseHexByte(line, 7) > 5 THEN <<TypeError(n)>>
    ELSE IF ~validateLineChecksum(line) THEN <<ChecksumError(n)>>
    ELSE <<>>

IntegrityError(line, n) ==
    IF ~validateLineChecksum(line) THEN <<ChecksumError(n)>>
    ELSE IF parseHexByte(line, 7) > 5 THEN <<TypeError(n)>>
    ELSE <<>>

\* the loop without the writtenAddresses.count(a) test
OverlapLoop_NoCount(absAddr, i, byteCount, written) ==
    [err |-> <<>>,
     written |-> written \cup {AddU32(absAddr, j) : j \in i..(byteCount - 1)}]

\* Lines 215-222: the loop over the bytes of a data record from index i;
\* it stops at the first address already in the set
RECURSIVE OverlapLoop(_, _, _, _)
OverlapLoop(absAddr, i, byteCount, written) ==
    IF i >= byteCount THEN [err |-> <<>>, written |-> written]
    ELSE LET a == AddU32(absAddr, i)
         IN  IF a \in written
             THEN [err |-> <<OverlapError(a)>>, written |-> written]
             ELSE OverlapLoop(absAddr, i + 1, byteCount, written \cup {a})

\* Lines 204-205: a second EOF record
MultipleEof_Never(recordType, eof) == FALSE

MultipleEof(recordType, eof) == recordType = 1 /\ eof

\* the records of type 02 taken as an address record too
ApplyRecord_SegmentApplied(line, eof, ext, written) ==
    LET byteCount  == parseHexByte(line, 1)
        address    == parseHexWord(line, 3)
        recordType == parseHexByte(line, 7)
        eof2       == eof \/ recordType = 1
        loop       == OverlapLoop(AbsAddr(ext, address), 0, byteCount, written)
    IN  IF MultipleEof(recordType, eof)
        THEN [err |-> <<MultipleEofError>>, eofSeen |-> eof, extAddr |-> ext,
              writtenAddresses |-> written]
        ELSE IF recordType = 0
        THEN [err |-> loop.err, eofSeen |-> eof2, extAddr |-> ext,
              writtenAddresses |-> loop.written]
        ELSE IF recordType = 4 \/ recordType = 2
        THEN [err |-> <<>>, eofSeen |-> eof2, extAddr |-> parseHexWord(line, 9),
              writtenAddresses |-> written]
        ELSE [err |-> <<>>, eofSeen |-> eof2, extAddr |-> ext,
              writtenAddresses |-> written]

\* Lines 203-225 for a line that passed the checks above
ApplyRecord(line, eof, ext, written) ==
    LET byteCount  == parseHexByte(line, 1)
        address    == parseHexWord(line, 3)
        recordType == parseHexByte(line, 7)
        eof2       == eof \/ recordType = 1
        loop       == OverlapLoop(AbsAddr(ext, address), 0, byteCount, written)
    IN  IF MultipleEof(recordType, eof)
        THEN [err |-> <<MultipleEofError>>, eofSeen |-> eof, extAddr |-> ext,
              writtenAddresses |-> written]
        ELSE IF recordType = 0
        THEN [err |-> loop.err, eofSeen |-> eof2, extAddr |-> ext,
              writtenAddresses |-> loop.written]
        ELSE IF recordType = 4
        THEN [err |-> <<>>, eofSeen |-> eof2, extAddr |-> parseHexWord(line, 9),
              writtenAddresses |-> written]
        ELSE [err |-> <<>>, eofSeen |-> eof2, extAddr |-> ext,
              writtenAddresses |-> written]

\* the iteration that checks nothing once the EOF record has been seen
ValidateLine_DoneAfterEof(rawLine, n, eof, ext, written) ==
    LET line == trimTrailing(rawLine)
        keep(e) == [err |-> e, eofSeen |-> eof, extAddr |-> ext,
                    writtenAddresses |-> written]
    IN  IF eof THEN keep(<<>>)
        ELSE IF SyntaxError(line, n) # <<>> THEN keep(SyntaxError(line, n))
        ELSE IF IntegrityError(line, n) # <<>> THEN keep(IntegrityError(line, n))
        ELSE ApplyRecord(line, eof, ext, written)

\* One iteration of the loop at lines 157-226 on the n-th line
ValidateLine(rawLine, n, eof, ext, written) ==
    LET line == trimTrailing(rawLine)
        keep(e) == [err |-> e, eofSeen |-> eof, extAddr |-> ext,
                    writtenAddresses |-> written]
    IN  IF SyntaxError(line, n) # <<>> THEN keep(SyntaxError(line, n))
        ELSE IF IntegrityError(line, n) # <<>> THEN keep(IntegrityError(line, n))
        ELSE ApplyRecord(line, eof, ext, written)

-----------------------------------------------------------------------------
(* The memory image: std::map<uint32_t, uint8_t> as a function on its keys *)

EmptyMap == [a \in {} |-> 0]

\* the store that leaves a key already present as it is
MapPut_KeepFirst(m, a, b) ==
    [k \in (DOMAIN m) \cup {a} |-> IF k \in DOMAIN m THEN m[k] ELSE b]

\* m[k] = v
MapPut(m, k, v) == [a \in (DOMAIN m) \cup {k} |-> IF a = k THEN v ELSE m[a]]

\* begin()->first and rbegin()->first of a non-empty map
MinKey(m) == CHOOSE k \in DOMAIN m : \A x \in DOMAIN m : x = k \/ LessU32(k, x)

MaxKey(m) == CHOOSE k \in DOMAIN m : \A x \in DOMAIN m : x = k \/ LessU32(x, k)

-----------------------------------------------------------------------------
(* parseIntelHexToMap *)

\* the loop that stores the first payload byte only
MapWriteLoop_FirstOnly(line, base, i, byteCount, m) ==
    IF byteCount = 0 THEN m ELSE MapPut(m, base, parseHexByte(line, 9))

\* Lines 289-292: mem[base + i] = b for the payload bytes from index i
RECURSIVE MapWriteLoop(_, _, _, _, _)
MapWriteLoop(line, base, i, byteCount, m) ==
    IF i >= byteCount THEN m
    ELSE MapWriteLoop(line, base, i + 1, byteCount,
                      MapPut(m, AddU32(base, i), parseHexByte(line, 9 + i * 2)))

\* Lines 270-285 on the trimmed, non-empty line: TRUE when the line is refused
MapLineRefused(line) ==
    \/ line[1] # ":"
    \/ \E i \in 2..Len(line) : ~isHexChar(line[i])
    \/ Len(line) < 11
    \/ Len(line) # 1 + 2 * (parseHexByte(line, 1) + 5)
    \/ ~validateLineChecksum(line)

\* the iteration with the line that does not start with ':' passed over
MapLine_SkipText(rawLine, ext, m) ==
    LET line      == rtrim(rawLine)
        byteCount == parseHexByte(line, 1)
        addr16    == parseHexWord(line, 3)
        recType   == parseHexByte(line, 7)
        out(nx, e, mm, eof) == [next |-> nx, extLinear |-> e, mem |-> mm, sawEOF |-> eof]
    IN  IF line = <<>> \/ line[1] # ":" THEN out("loop", ext, m, FALSE)
        ELSE IF MapLineRefused(line) THEN out("fail", ext, m, FALSE)
        ELSE IF recType = 0
        THEN out("loop", ext, MapWriteLoop(line, AbsAddr(ext, addr16), 0, byteCount, m), FALSE)
        ELSE IF recType = 4
        THEN IF byteCount # 2 THEN out("fail", ext, m, FALSE)
             ELSE out("loop", parseHexWord(line, 9), m, FALSE)
        ELSE IF recType = 1 THEN out("break", ext, m, TRUE)
        ELSE out("loop", ext, m, FALSE)

\* One iteration of the loop at lines 266-302; next is "loop" (read on),
\* "fail" (return false) or "break" (the EOF record)
MapLine(rawLine, ext, m) ==
    LET line      == rtrim(rawLine)
        byteCount == parseHexByte(line, 1)
        addr16    == parseHexWord(line, 3)
        recType   == parseHexByte(line, 7)
        out(nx, e, mm, eof) == [next |-> nx, extLinear |-> e, mem |-> mm, sawEOF |-> eof]
    IN  IF line = <<>> THEN out("loop", ext, m, FALSE)
        ELSE IF MapLineRefused(line) THEN out("fail", ext, m, FALSE)
        ELSE IF recType = 0
        THEN out("loop", ext, MapWriteLoop(line, AbsAddr(ext, addr16), 0, byteCount, m), FALSE)
        ELSE IF recType = 4
        THEN IF byteCount # 2 THEN out("fail", ext, m, FALSE)
             ELSE out("loop", parseHexWord(line, 9), m, FALSE)
        ELSE IF recType = 1 THEN out("break", ext, m, TRUE)
        ELSE out("loop", ext, m, FALSE)

-----------------------------------------------------------------------------
(* findPatternAddress and the version bytes *)

kBootSig == <<32, 15, 249, 167, 23, 125, 78, 153,
              219, 83, 162, 114, 231, 195, 225, 250>>

kBootSigLen == Len(kBootSig)

\* the inner loop with an absent address passed over instead of failing
MatchLoop_SkipAbsent(m, pat, patLen, addr, i) ==
    \A k \in i..(patLen - 1) :
        AddU32(addr, k) \in DOMAIN m => m[AddU32(addr, k)] = pat[k + 1]

\* Lines 317-321: the inner loop from index i (pat[i] is kBootSig[i + 1])
RECURSIVE MatchLoop(_, _, _, _, _)
MatchLoop(m, pat, patLen, addr, i) ==
    IF i >= patLen THEN TRUE
    ELSE LET j == AddU32(addr, i)
         IN  IF j \notin DOMAIN m \/ m[j] # pat[i + 1] THEN FALSE
             ELSE MatchLoop(m, pat, patLen, addr, i + 1)

\* Lines 313-323: the iteration over the keys not yet visited, in ascending order
RECURSIVE ScanLoop(_, _, _, _)
ScanLoop(m, pat, patLen, rest) ==
    IF rest = {} THEN [found |-> FALSE, addr |-> <<0, 0>>]
    ELSE LET addr == CHOOSE k \in rest : \A x \in rest : x = k \/ LessU32(k, x)
         IN  IF m[addr] = pat[1] /\ MatchLoop(m, pat, patLen, addr, 1)
             THEN [found |-> TRUE, addr |-> addr]
             ELSE ScanLoop(m, pat, patLen, rest \ {addr})

findPatternAddress(m, pat, patLen) ==
    IF Cardinality(DOMAIN m) < patLen THEN [found |-> FALSE, addr |-> <<0, 0>>]
    ELSE ScanLoop(m, pat, patLen, DOMAIN m)

\* the version bytes taken one address too early
versionAddr_Early(sig) == AddU32(sig, kBootSigLen - 1)

\* const uint32_t versionAddr = sigAddr + kBootSigLen
versionAddr(sig) == AddU32(sig, kBootSigLen)

-----------------------------------------------------------------------------
(* parseIntelHex and computePagesUsed *)

\* Lines 69-72: the write loop from index i; it raises when a payload byte
\* cannot be read
RECURSIVE FlashWriteLoop(_, _, _, _, _)
FlashWriteLoop(line, absoluteAddress, i, byteCount, fd) ==
    IF i >= byteCount THEN [throws |-> FALSE, flashData |-> fd]
    ELSE IF parseHexByteThrows(line, 9 + i * 2) THEN [throws |-> TRUE, flashData |-> fd]
    ELSE FlashWriteLoop(line, absoluteAddress, i + 1, byteCount,
                        MapPut(fd, AddU32(absoluteAddress, i), parseHexByte(line, 9 + i * 2)))

\* the iteration with the EOF record read past instead of ending the loop
FlashLine_ReadsOn(line, ext, fd) ==
    LET byteCount  == parseHexByte(line, 1)
        address    == parseHexWord(line, 3)
        recordType == parseHexByte(line, 7)
        loop       == FlashWriteLoop(line, AbsAddr(ext, address), 0, byteCount, fd)
        out(nx, e, f) == [next |-> nx, extendedLinearAddress |-> e, flashData |-> f]
    IN  IF line = <<>> \/ line[1] # ":" THEN out("loop", ext, fd)
        ELSE IF \/ parseHexByteThrows(line, 1)
                \/ parseHexWordThrows(line, 3)
                \/ parseHexByteThrows(line, 7) THEN out("throw", ext, fd)
        ELSE IF recordType = 0
        THEN IF loop.throws THEN out("throw", ext, loop.flashData)
             ELSE out("loop", ext, loop.flashData)
        ELSE IF recordType = 4
        THEN IF parseHexWordThrows(line, 9) THEN out("throw", ext, fd)
             ELSE out("loop", parseHexWord(line, 9), fd)
        ELSE out("loop", ext, fd)

\* One iteration of the loop at lines 58-78; next is "loop", "throw" (an
\* exception leaves the function) or "break" (the EOF record)
FlashLine(line, ext, fd) ==
    LET byteCount  == parseHexByte(line, 1)
        address    == parseHexWord(line, 3)
        recordType == parseHexByte(line, 7)
        loop       == FlashWriteLoop(line, AbsAddr(ext, address), 0, byteCount, fd)
        out(nx, e, f) == [next |-> nx, extendedLinearAddress |-> e, flashData |-> f]
    IN  IF line = <<>> \/ line[1] # ":" THEN out("loop", ext, fd)
        ELSE IF \/ parseHexByteThrows(line, 1)
                \/ parseHexWordThrows(line, 3)
                \/ parseHexByteThrows(line, 7) THEN out("throw", ext, fd)
        ELSE IF recordType = 0
        THEN IF loop.throws THEN out("throw", ext, loop.flashData)
             ELSE out("loop", ext, loop.flashData)
        ELSE IF recordType = 4
        THEN IF parseHexWordThrows(line, 9) THEN out("throw", ext, fd)
             ELSE out("loop", parseHexWord(line, 9), fd)
        ELSE IF recordType = 1 THEN out("break", ext, fd)
        ELSE out("loop", ext, fd)

\* a / p for a uint32_t a = <<hi, lo>> and 2 <= p <= 32768, by long division
\* on the two halves
DivU32(a, p) == (a[1] \div p) * 65536 + ((a[1] % p) * 65536 + a[2]) \div p

\* the pages that hold a byte, counted one by one
computePagesUsed_Occupied(fd, ps) == Cardinality({DivU32(a, ps) : a \in DOMAIN fd})

computePagesUsed(fd, ps) ==
    IF DOMAIN fd = {} THEN 0
    ELSE LET minAddr   == MinKey(fd)
             maxAddr   == MaxKey(fd)
             firstPage == DivU32(minAddr, ps)
             lastPage  == DivU32(maxAddr, ps)
         IN  lastPage - firstPage + 1

-----------------------------------------------------------------------------
(* Input files *)

Hex2(b) == <<HexDigits[(b \div 16) + 1], HexDigits[(b % 16) + 1]>>

RECURSIVE HexBytes(_)
HexBytes(bytes) == IF bytes = <<>> THEN <<>> ELSE Hex2(Head(bytes)) \o HexBytes(Tail(bytes))

RECURSIVE SumBytes(_)
SumBytes(bytes) == IF bytes = <<>> THEN 0 ELSE Head(bytes) + SumBytes(Tail(bytes))

\* the text of the record with these fields and the checksum that makes
\* its bytes sum to 0 modulo 256
Record(byteCount, address, recordType, payload) ==
    LET head == <<byteCount, address \div 256, address % 256, recordType>> \o payload
    IN  <<":">> \o HexBytes(head) \o Hex2((256 - (SumBytes(head) % 256)) % 256)

\* the line with the character at 0-based position pos replaced by c
WithChar(line, pos, c) == [line EXCEPT ![pos + 1] = c]

EofLine       == Record(0, 0, 1, <<>>)
DataLine      == Record(2, 0, 0, <<170, 187>>)         \* AA BB at 0x0000
DataLowLine   == Record(1, 0, 0, <<204>>)              \* CC at 0x0000
DataEdgeLine  == Record(2, 65535, 0, <<221, 238>>)     \* DD EE at 0xFFFF
ExtOneLine    == Record(2, 0, 4, <<0, 1>>)             \* upper half 0x0001
ExtTopLine    == Record(2, 0, 4, <<255, 255>>)         \* upper half 0xFFFF
ExtShortLine  == Record(1, 0, 4, <<1>>)                \* type 04 with a 1-byte payload
InertLine     == Record(2, 0, 2, <<16, 0>>)            \* type 02
UnknownLine   == Record(0, 0, 6, <<>>)                 \* type 06, checksum right
SigLine       == Record(18, 32768, 0, kBootSig \o <<6, 104>>)  \* signature at 0x8000, then 06 68
BadSumLine    == WithChar(DataLine, 12, "0")           \* DataLine with a wrong checksum
BadSumTypeLine == WithChar(UnknownLine, 10, "0")       \* type 06 and a wrong checksum
TextLine      == <<"G">>                               \* no leading ':'
BlankLine     == <<>>

\* the lines of the files given to all three calls in turn
Catalogue ==
    {EofLine, DataLine, DataLowLine, DataEdgeLine, ExtOneLine, ExtShortLine,
     SigLine, BadSumLine, TextLine, BlankLine}

\* the lines of the files given to validateHexFile alone
ValidateCatalogue ==
    {EofLine, DataLine, DataLowLine, DataEdgeLine, ExtOneLine, InertLine,
     BadSumTypeLine, TextLine, BlankLine}

Inert03Line   == Record(4, 0, 3, <<0, 1, 0, 0>>)       \* type 03
Inert05Line   == Record(4, 0, 5, <<0, 1, 0, 0>>)       \* type 05

\* the lines of the files of address records, inert records and a data
\* record that crosses a 64 KiB boundary
FrameCatalogue ==
    {EofLine, DataEdgeLine, ExtOneLine, ExtTopLine, InertLine, Inert03Line, Inert05Line}

\* the lines of the files given to validateHexFile and then to
\* parseIntelHexToMap
AgreeCatalogue ==
    {EofLine, DataLine, DataLowLine, DataEdgeLine, ExtOneLine, ExtShortLine}

\* a line of a blank and a carriage return
CrLine        == <<" ", "\r">>

\* the lines of the files given to validateHexFile with lines after the EOF
\* record
AfterEofCatalogue ==
    {EofLine, DataLine, DataLowLine, ExtOneLine, BadSumLine, BlankLine, CrLine}

\* the signature at 0x8000 followed by the major byte alone
SigMajorLine  == Record(17, 32768, 0, kBootSig \o <<6>>)

\* the lines of the files given to validateHexFile and then to
\* extractBootloaderVersionFromHex
OutputsCatalogue == {EofLine, DataLine, SigLine, SigMajorLine, TextLine}

\* a line of a blank and a tab
SpaceLine     == <<" ", "\t">>

\* the lines of the files without the boot signature given to
\* extractBootloaderVersionFromHex and calculateFlashPagesUsed
BuildCatalogue ==
    {EofLine, DataLine, DataLowLine, DataEdgeLine, ExtOneLine, TextLine, BlankLine,
     SpaceLine}

\* the lines of the files given to calculateFlashPagesUsed alone
CalcCatalogue ==
    {EofLine, DataLine, DataLowLine, DataEdgeLine, ExtOneLine, ExtShortLine,
     InertLine, BadSumLine, TextLine, BlankLine, <<":">>, <<":", "0", "2">>}

MaxLines == 3

Files(lines) == UNION {[1..n -> lines] : n \in 0..MaxLines}

\* Single lines: well-formed records, each of them with one character
\* replaced, cut short, or with characters appended
BaseLines == {EofLine, DataLine, ExtOneLine, InertLine, UnknownLine,
              WithChar(DataLine, 9, "a")}

EditChars == {HexDigits[i] : i \in 1..16} \cup {"a", "f", "G", " "}

Edited == {WithChar(b, pos, c) : b \in BaseLines, pos \in 1..10, c \in EditChars}
          \cup {WithChar(b, pos, c) : b \in BaseLines \ {EofLine, UnknownLine},
                                       pos \in 11..14, c \in EditChars}

Truncated == UNION {{SubSeq(b, 1, k) : k \in 0..Len(b)} : b \in BaseLines}

Paddings == {<<" ">>, <<"\r">>, <<"\t">>, <<" ", "\r">>, <<"0">>, <<"0", "0">>,
             <<"G">>, <<"0", " ">>, <<" ", "0">>}

Padded == {b \o pad : b \in BaseLines, pad \in Paddings}

LineFamily == BaseLines \cup Edited \cup Truncated \cup Padded

\* flash page size of the STM32, the documented example of flashPageSize
STM32PageSize == 2048

PageSizes == {16, STM32PageSize, 4096}

RECURSIVE SubsetsUpTo(_, _)
SubsetsUpTo(S, k) ==
    IF k = 0 THEN {{}}
    ELSE LET smaller == SubsetsUpTo(S, k - 1)
         IN  smaller \cup {e \cup {x} : e \in smaller, x \in S}

\* Memory images for computePagesUsed: up to MaxKeys bytes at addresses
\* on and around page and 64 KiB boundaries
MaxKeys == 2

PageAddrs == {<<0, 0>>, <<0, 15>>, <<0, 16>>, <<0, 2047>>, <<0, 2048>>, <<0, 4096>>,
              <<0, 65535>>, <<1, 0>>, <<65535, 65535>>}

PageImages == {[a \in keys |-> 170] : keys \in SubsetsUpTo(PageAddrs, MaxKeys)}

\* Memory images for findPatternAddress: the signature and the two version
\* bytes at one or two places, with up to MaxEdits bytes removed or zeroed
MaxEdits == 1

SigBytes == kBootSig \o <<6, 104>>

SigBlock(start, n) ==
    [a \in {AddU32(start, i) : i \in 0..(n - 1)} |->
        SigBytes[(CHOOSE i \in 0..(n - 1) : AddU32(start, i) = a) + 1]]

Merge(f, g) == [a \in (DOMAIN f) \cup (DOMAIN g) |-> IF a \in DOMAIN f THEN f[a] ELSE g[a]]

ScanStarts == {<<0, 32768>>, <<0, 65528>>, <<65535, 65528>>}

ScanBases ==
    {SigBlock(s, 18) : s \in ScanStarts}
    \cup {SigBlock(s, 15) : s \in ScanStarts}
    \cup {Merge(SigBlock(s, 18), SigBlock(AddU32(s, 16), 18)) : s \in ScanStarts}
    \cup {Merge(SigBlock(s, 18), SigBlock(AddU32(s, 24), 18)) : s \in ScanStarts}

Removed(m, keys) == [a \in (DOMAIN m) \ keys |-> m[a]]

Zeroed(m, keys) == [a \in DOMAIN m |-> IF a \in keys THEN 0 ELSE m[a]]

ScanImages ==
    UNION {{Removed(m, e) : e \in SubsetsUpTo(DOMAIN m, MaxEdits)}
           \cup {Zeroed(m, e) : e \in SubsetsUpTo(DOMAIN m, MaxEdits)} : m \in ScanBases}

-----------------------------------------------------------------------------
(* The calls.  The caller runs validateHexFile, then                       *)
(* extractBootloaderVersionFromHex, then calculateFlashPagesUsed on the    *)
(* same file; each call opens the file itself and shares no state with the *)
(* others.                                                                 *)

\* the state at position start: a file, a page size, and the images the
\* two builders hold (empty before they run)
InitWith(files, sizes, start, images, flashImages) ==
    /\ file \in files
    /\ opens \in {TRUE} \cup (IF file = <<>> THEN {FALSE} ELSE {})
    /\ pc = start
    /\ lineNum = 0 /\ eofSeen = FALSE /\ extAddr = 0 /\ writtenAddresses = {}
    /\ errorOut = PriorError /\ vResult = "pending"
    /\ mLineNum = 0 /\ mem \in images /\ extLinear = 0 /\ sawEOF = FALSE
    /\ mResult = "pending"
    /\ sigAddr = <<0, 0>> /\ major = -1 /\ minor = -1 /\ xResult = "pending"
    /\ pageSize \in sizes
    /\ pPos = 0 /\ flashData \in flashImages /\ extendedLinearAddress = 0
    /\ pResult = "pending" /\ pagesUsed = 0

Init == InitWith(Files(Catalogue), {STM32PageSize}, "validate", {EmptyMap}, {EmptyMap})

InitValidate ==
    InitWith(Files(ValidateCatalogue) \cup {<<l>> : l \in LineFamily},
             {STM32PageSize}, "validate", {EmptyMap}, {EmptyMap})

InitFrame ==
    InitWith(Files(FrameCatalogue), {STM32PageSize}, "validate", {EmptyMap}, {EmptyMap})

InitAgree ==
    InitWith(Files(AgreeCatalogue), {STM32PageSize}, "validate", {EmptyMap}, {EmptyMap})

InitAfterEof ==
    InitWith(Files(AfterEofCatalogue), {STM32PageSize}, "validate", {EmptyMap}, {EmptyMap})

InitOutputs ==
    InitWith(Files(OutputsCatalogue), {STM32PageSize}, "validate", {EmptyMap}, {EmptyMap})

InitBuild ==
    InitWith(Files(BuildCatalogue), {STM32PageSize}, "extract", {EmptyMap}, {EmptyMap})

InitCalc == InitWith(Files(CalcCatalogue), {STM32PageSize}, "calc", {EmptyMap}, {EmptyMap})

\* computePagesUsed on a given image: the state at line 101
InitPages ==
    /\ InitWith({<<>>}, PageSizes, "p_compute", {EmptyMap}, PageImages)
    /\ opens

\* findPatternAddress on a given image: the state at line 342
InitScan ==
    /\ InitWith({<<>>}, {STM32PageSize}, "x_scan", ScanImages, {EmptyMap})
    /\ opens

\* validateHexFile, lines 145-155
V_Open ==
    /\ pc = "validate"
    /\ IF opens
       THEN /\ pc' = "v_loop"
            /\ lineNum' = 0 /\ eofSeen' = FALSE /\ extAddr' = 0
            /\ writtenAddresses' = {}
            /\ UNCHANGED <<errorOut, vResult>>
       ELSE /\ errorOut' = OpenError
            /\ vResult' = "invalid"
            /\ pc' = "extract"
            /\ UNCHANGED <<lineNum, eofSeen, extAddr, writtenAddresses>>
    /\ UNCHANGED <<inVars, mVars, xVars, pVars>>

\* validateHexFile, one iteration of the loop at lines 157-226
V_Line ==
    /\ pc = "v_loop"
    /\ lineNum < Len(file)
    /\ LET n == lineNum + 1
           r == ValidateLine(file[n], n, eofSeen, extAddr, writtenAddresses)
       IN  /\ lineNum' = n
           /\ eofSeen' = r.eofSeen
           /\ extAddr' = r.extAddr
           /\ writtenAddresses' = r.writtenAddresses
           /\ IF r.err # <<>>
              THEN errorOut' = r.err[1] /\ vResult' = "invalid" /\ pc' = "extract"
              ELSE UNCHANGED <<errorOut, vResult, pc>>
    /\ UNCHANGED <<inVars, mVars, xVars, pVars>>

\* validateHexFile, lines 228-233, when std::getline finds no further line
V_End ==
    /\ pc = "v_loop"
    /\ lineNum = Len(file)
    /\ IF ~eofSeen
       THEN errorOut' = MissingEofError /\ vResult' = "invalid"
       ELSE errorOut' = errorOut /\ vResult' = "valid"
    /\ pc' = "extract"
    /\ UNCHANGED <<inVars, lineNum, eofSeen, extAddr, writtenAddresses, mVars, xVars, pVars>>

\* extractBootloaderVersionFromHex calls parseIntelHexToMap, lines 339-340 and 258-264
M_Open ==
    /\ pc = "extract"
    /\ IF opens
       THEN /\ pc' = "m_loop"
            /\ mLineNum' = 0 /\ mem' = EmptyMap /\ extLinear' = 0 /\ sawEOF' = FALSE
            /\ UNCHANGED <<mResult, xResult>>
       ELSE /\ mResult' = "false" /\ xResult' = "false"
            /\ pc' = "calc"
            /\ UNCHANGED <<mLineNum, mem, extLinear, sawEOF>>
    /\ UNCHANGED <<inVars, vVars, sigAddr, major, minor, pVars>>

\* the return of parseIntelHexToMap with value ok, and line 340
MapReturn(ok) ==
    IF ok
    THEN mResult' = "true" /\ xResult' = xResult /\ pc' = "x_scan"
    ELSE mResult' = "false" /\ xResult' = "false" /\ pc' = "calc"

\* parseIntelHexToMap, one iteration of the loop at lines 266-302
M_Line ==
    /\ pc = "m_loop"
    /\ mLineNum < Len(file)
    /\ LET r == MapLine(file[mLineNum + 1], extLinear, mem)
       IN  /\ mLineNum' = mLineNum + 1
           /\ mem' = r.mem
           /\ extLinear' = r.extLinear
           /\ sawEOF' = r.sawEOF
           /\ IF r.next = "loop" THEN UNCHANGED <<mResult, xResult, pc>>
              ELSE MapReturn(r.next = "break")
    /\ UNCHANGED <<inVars, vVars, sigAddr, major, minor, pVars>>

\* parseIntelHexToMap, line 304, when std::getline finds no further line
M_End ==
    /\ pc = "m_loop"
    /\ mLineNum = Len(file)
    /\ MapReturn(sawEOF)
    /\ UNCHANGED <<inVars, vVars, mLineNum, mem, extLinear, sawEOF, sigAddr, major, minor, pVars>>

\* extractBootloaderVersionFromHex, lines 342-343
X_Scan ==
    /\ pc = "x_scan"
    /\ LET r == findPatternAddress(mem, kBootSig, kBootSigLen)
       IN  IF r.found
           THEN sigAddr' = r.addr /\ xResult' = xResult /\ pc' = "x_version"
           ELSE sigAddr' = <<0, 0>> /\ xResult' = "false" /\ pc' = "calc"
    /\ UNCHANGED <<inVars, vVars, mVars, major, minor, pVars>>

\* the step that stores major as soon as it is found, before minor is looked up
X_Version_MajorFirst ==
    /\ pc = "x_version"
    /\ LET va == versionAddr(sigAddr)
       IN  /\ major' = IF va \in DOMAIN mem THEN mem[va] ELSE major
           /\ IF va \notin DOMAIN mem \/ AddU32(va, 1) \notin DOMAIN mem
              THEN xResult' = "false" /\ UNCHANGED minor
              ELSE minor' = mem[AddU32(va, 1)] /\ xResult' = "true"
    /\ pc' = "calc"
    /\ UNCHANGED <<inVars, vVars, mVars, sigAddr, pVars>>

\* extractBootloaderVersionFromHex, lines 345-358
X_Version ==
    /\ pc = "x_version"
    /\ LET va == versionAddr(sigAddr)
       IN  IF va \notin DOMAIN mem \/ AddU32(va, 1) \notin DOMAIN mem
           THEN xResult' = "false" /\ UNCHANGED <<major, minor>>
           ELSE /\ major' = mem[va]
                /\ minor' = mem[AddU32(va, 1)]
                /\ xResult' = "true"
    /\ pc' = "calc"
    /\ UNCHANGED <<inVars, vVars, mVars, sigAddr, pVars>>

\* calculateFlashPagesUsed calls parseIntelHex, lines 99-100 and 49-56
P_Open ==
    /\ pc = "calc"
    /\ IF opens
       THEN /\ pc' = "p_loop"
            /\ pPos' = 0 /\ flashData' = EmptyMap /\ extendedLinearAddress' = 0
            /\ UNCHANGED <<pResult>>
       ELSE /\ pResult' = "raised"
            /\ pc' = "done"
            /\ UNCHANGED <<pPos, flashData, extendedLinearAddress>>
    /\ UNCHANGED <<inVars, vVars, mVars, xVars, pageSize, pagesUsed>>

\* parseIntelHex, one iteration of the loop at lines 58-78
P_Line ==
    /\ pc = "p_loop"
    /\ pPos < Len(file)
    /\ LET r == FlashLine(file[pPos + 1], extendedLinearAddress, flashData)
       IN  /\ pPos' = pPos + 1
           /\ flashData' = r.flashData
           /\ extendedLinearAddress' = r.extendedLinearAddress
           /\ IF r.next = "loop" THEN UNCHANGED <<pResult, pc>>
              ELSE IF r.next = "throw" THEN pResult' = "raised" /\ pc' = "done"
              ELSE pResult' = pResult /\ pc' = "p_compute"
    /\ UNCHANGED <<inVars, vVars, mVars, xVars, pageSize, pagesUsed>>

\* parseIntelHex, line 80, when std::getline finds no further line
P_End ==
    /\ pc = "p_loop"
    /\ pPos = Len(file)
    /\ pc' = "p_compute"
    /\ UNCHANGED <<inVars, vVars, mVars, xVars, pVars>>

\* calculateFlashPagesUsed, line 101
P_Compute ==
    /\ pc = "p_compute"
    /\ pagesUsed' = computePagesUsed(flashData, pageSize)
    /\ pResult' = "returned"
    /\ pc' = "done"
    /\ UNCHANGED <<inVars, vVars, mVars, xVars, pageSize, pPos, flashData, extendedLinearAddress>>

Next ==
    \/ V_Open \/ V_Line \/ V_End
    \/ M_Open \/ M_Line \/ M_End
    \/ X_Scan \/ X_Version
    \/ P_Open \/ P_Line \/ P_End \/ P_Compute

Spec == Init /\ [][Next]_vars

NextValidate == V_Open \/ V_Line \/ V_End

SpecValidate == InitValidate /\ [][NextValidate]_vars

NextCalc == P_Open \/ P_Line \/ P_End \/ P_Compute

SpecCalc == InitCalc /\ [][NextCalc]_vars

SpecPages == InitPages /\ [][P_Compute]_vars

\* the two builders on files that hold no boot signature: findPatternAddress
\* finds nothing and line 345 is not reached
NextBuild ==
    \/ M_Open \/ M_Line \/ M_End
    \/ X_Scan
    \/ P_Open \/ P_Line \/ P_End \/ P_Compute

SpecBuild == InitBuild /\ [][NextBuild]_vars

\* the three calls on files that hold no boot signature
NextFrame ==
    \/ V_Open \/ V_Line \/ V_End
    \/ M_Open \/ M_Line \/ M_End
    \/ X_Scan
    \/ P_Open \/ P_Line \/ P_End \/ P_Compute

SpecFrame == InitFrame /\ [][NextFrame]_vars

\* validateHexFile, then extractBootloaderVersionFromHex up to the return of
\* findPatternAddress, on files that hold no boot signature
NextAgree ==
    \/ V_Open \/ V_Line \/ V_End
    \/ M_Open \/ M_Line \/ M_End
    \/ X_Scan

SpecAgree == InitAgree /\ [][NextAgree]_vars

SpecAfterEof == InitAfterEof /\ [][NextValidate]_vars

\* validateHexFile, then extractBootloaderVersionFromHex
NextOutputs ==
    \/ V_Open \/ V_Line \/ V_End
    \/ M_Open \/ M_Line \/ M_End
    \/ X_Scan \/ X_Version

SpecOutputs == InitOutputs /\ [][NextOutputs]_vars

NextScan == X_Scan \/ X_Version

SpecScan == InitScan /\ [][NextScan]_vars

-----------------------------------------------------------------------------
(* Reading a file by the record grammar                                    *)
(* ':' BYTECOUNT(2) ADDRESS(4) RECTYPE(2) PAYLOAD(2*BYTECOUNT) CHECKSUM(2) *)
(* The properties below are stated against these definitions, which read   *)
(* the fields of a line straight from the grammar.                         *)

\* the characters at 0-based positions pos .. pos+n-1 exist and are hex digits
HexAt(l, pos, n) == Len(l) >= pos + n /\ \A i \in (pos + 1)..(pos + n) : l[i] \in HexChars

\* the byte written at 0-based position pos
ByteAt(l, pos) == 16 * HexValues[l[pos + 1]] + HexValues[l[pos + 2]]

\* the line without its trailing blanks, carriage returns and line feeds
Stripped(l) ==
    LET keep == {i \in 1..Len(l) : l[i] \notin {" ", "\r", "\n"}}
    IN  IF keep = {} THEN <<>>
        ELSE SubSeq(l, 1, CHOOSE i \in keep : \A j \in keep : j <= i)

\* the line has the shape of a record: ':', then hex digits only, as many
\* as its byte count announces
IsRecord(l) ==
    /\ Len(l) >= 11
    /\ l[1] = ":"
    /\ HexAt(l, 1, Len(l) - 1)
    /\ Len(l) = 11 + 2 * ByteAt(l, 1)

\* the sum of the bytes of a record, checksum byte included
ByteSum(l) == SumBytes([i \in 1..((Len(l) - 1) \div 2) |-> ByteAt(l, 2 * i - 1)])

\* a record the Record Decoder accepts
IsValidRecord(l) == IsRecord(l) /\ ByteSum(l) % 256 = 0 /\ ByteAt(l, 7) <= 5

TypeOf(l) == ByteAt(l, 7)

\* every line of the file, stripped, is a record the Record Decoder accepts
AllValidRecords(f) == \A k \in 1..Len(f) : IsValidRecord(Stripped(f[k]))

\* the 16-bit value a type-04 record carries: the hex digits at positions 9..12
UpperOf(l) == DigitsValue(SubSeq(l, 10, Min(13, Len(l))), 0) % 65536

\* the lines before line k that are type-04 records
ExtBefore(f, k) == {j \in 1..(k - 1) : IsRecord(Stripped(f[j])) /\ TypeOf(Stripped(f[j])) = 4}

\* the extended-address value in force at line k: that of the most recent
\* type-04 record before it, 0 if there is none
UpperAt(f, k) ==
    IF ExtBefore(f, k) = {} THEN 0
    ELSE UpperOf(Stripped(f[CHOOSE j \in ExtBefore(f, k) : \A x \in ExtBefore(f, k) : x <= j]))

\* the absolute addresses the data record at line k covers
RangeOf(f, k) ==
    LET l == Stripped(f[k])
    IN  {AddU32(<<UpperAt(f, k), 256 * ByteAt(l, 3) + ByteAt(l, 5)>>, i) :
            i \in 0..(ByteAt(l, 1) - 1)}

\* the data records among the first n lines
DataLines(f, n) == {k \in 1..n : IsRecord(Stripped(f[k])) /\ TypeOf(Stripped(f[k])) = 0}

\* the addresses covered by the data records among the first n lines
Covered(f, n) == UNION {RangeOf(f, k) : k \in DataLines(f, n)}

\* the data record at line k covers an address an earlier data record covers
Overlaps(f, k) == k \in DataLines(f, k) /\ RangeOf(f, k) \cap Covered(f, k - 1) # {}

EofLines(f) == {k \in 1..Len(f) : TypeOf(Stripped(f[k])) = 1}

ValidateDone == vResult # "pending"

-----------------------------------------------------------------------------
(* C1: EOF cardinality.  When every line is a record the decoder accepts   *)
(* and no two data records overlap, validateHexFile answers valid exactly  *)
(* when the file holds one record of type 01; with none it reports the     *)
(* missing EOF, and with two or more it stops at the second one with the   *)
(* multiple-EOF error.                                                     *)
C1_EofCardinality ==
    (ValidateDone /\ opens /\ AllValidRecords(file)
        /\ \A k \in 1..Len(file) : ~Overlaps(file, k))
    => LET eofs == EofLines(file)
       IN  /\ (vResult = "valid") <=> (Cardinality(eofs) = 1)
           /\ (eofs = {}) => (vResult = "invalid" /\ errorOut = MissingEofError)
           /\ (Cardinality(eofs) >= 2) =>
                 /\ vResult = "invalid" /\ errorOut = MultipleEofError
                 /\ Cardinality({k \in eofs : k < lineNum}) = 1
                 /\ lineNum \in eofs

\* a file of accepted records holding a data record and two EOF records was refused
C1_Witness ==
    /\ ValidateDone /\ AllValidRecords(file)
    /\ Cardinality(EofLines(file)) = 2
    /\ DataLines(file, Len(file)) # {}
    /\ errorOut = MultipleEofError

-----------------------------------------------------------------------------
\* the uint32_t an upper-case hexadecimal numeral of up to 8 digits denotes
NumeralU32(digits) ==
    IF Len(digits) <= 4 THEN <<0, DigitsValue(digits, 0)>>
    ELSE <<DigitsValue(SubSeq(digits, 1, Len(digits) - 4), 0),
           DigitsValue(SubSeq(digits, Len(digits) - 3, Len(digits)), 0)>>

\* the first n lines are records the decoder accepts, with no second EOF
\* record and no overlap among them
CleanPrefix(f, n) ==
    /\ \A k \in 1..n : IsValidRecord(Stripped(f[k])) /\ ~Overlaps(f, k)
    /\ Cardinality({k \in 1..n : TypeOf(Stripped(f[k])) = 1}) <= 1

\* the sum of the byte counts of the data records among the first n lines
RECURSIVE DataBytes(_, _)
DataBytes(f, n) ==
    IF n = 0 THEN 0
    ELSE DataBytes(f, n - 1)
         + (IF n \in DataLines(f, n) THEN ByteAt(Stripped(f[n]), 1) ELSE 0)

(* C2: overlap detection.  When a data record covers an address that an    *)
(* earlier data record of the file covers, whatever the extended-address   *)
(* state of either and whatever the byte values, validateHexFile refuses   *)
(* the file at that record with the overlap error, and the address the     *)
(* message names is covered by that record and by an earlier one.  While   *)
(* the pass runs, writtenAddresses holds the addresses of the data         *)
(* records accepted so far, each exactly once.                             *)
C2_OverlapDetected ==
    /\ \A k \in 1..Len(file) :
          (ValidateDone /\ opens /\ CleanPrefix(file, k - 1)
              /\ IsValidRecord(Stripped(file[k]))
              /\ Overlaps(file, k))
          => /\ vResult = "invalid"
             /\ lineNum = k
             /\ errorOut.pre = "Overlapping data at address 0x"
             /\ NumeralU32(errorOut.arg) \in RangeOf(file, k) \cap Covered(file, k - 1)
    /\ (pc = "v_loop") =>
          /\ writtenAddresses = Covered(file, lineNum)
          /\ Cardinality(writtenAddresses) = DataBytes(file, lineNum)

\* a data record under extended-address state 0x0001 was refused for the
\* address 0x10000, first written by a record under state 0
C2_Witness ==
    /\ ValidateDone
    /\ extAddr = 1
    /\ errorOut = OverlapError(<<1, 0>>)
    /\ <<1, 0>> \in Covered(file, lineNum - 1)

-----------------------------------------------------------------------------
\* The checks of a line, each read from the grammar on its own, in the
\* order of the error priority: missing colon or empty, invalid hex
\* character, too short, length mismatch, checksum mismatch, unknown record
\* type, multiple EOF, overlap
Checks(f, k) ==
    LET t == Stripped(f[k])
        isEof(l) == HexAt(l, 7, 2) /\ ByteAt(l, 7) = 1
    IN  << t = <<>> \/ t[1] # ":",
           \E i \in 2..Len(t) : t[i] \notin HexChars,
           Len(t) < 11,
           HexAt(t, 1, 2) /\ Len(t) # 11 + 2 * ByteAt(t, 1),
           Len(t) >= 3 /\ Len(t) % 2 = 1 /\ HexAt(t, 1, Len(t) - 1) /\ ByteSum(t) % 256 # 0,
           HexAt(t, 7, 2) /\ ByteAt(t, 7) > 5,
           isEof(t) /\ \E j \in 1..(k - 1) : isEof(Stripped(f[j])),
           Overlaps(f, k) >>

\* the first check line k fails, 0 when it fails none
FirstFailed(f, k) ==
    LET failed == {c \in 1..8 : Checks(f, k)[c]}
    IN  IF failed = {} THEN 0 ELSE CHOOSE c \in failed : \A d \in failed : c <= d

\* the text validateHexFile reports for check c
ReportFor(c) ==
    << "Line ", "Invalid hex character at line ", "Line ",
       "Incorrect line length at line ", "Checksum mismatch at line ",
       "Unknown record type at line ", "Multiple EOF records detected.",
       "Overlapping data at address 0x" >>[c]

(* C3: strict first error.  validateHexFile refuses a file at its first    *)
(* line that fails any check and reports, for that line, the first failed  *)
(* check in the order missing colon or empty, invalid hex character, too   *)
(* short, length mismatch, checksum mismatch, unknown record type,         *)
(* multiple EOF, overlap; it reads no line after that one.  A file without *)
(* such a line is valid or lacks its EOF record.                           *)
C3_FirstErrorPriority ==
    (ValidateDone /\ opens)
    => LET bad == {k \in 1..Len(file) : FirstFailed(file, k) # 0}
       IN  IF bad = {}
           THEN /\ lineNum = Len(file)
                /\ vResult = "valid" \/ errorOut = MissingEofError
           ELSE LET k == CHOOSE x \in bad : \A y \in bad : x <= y
                    c == FirstFailed(file, k)
                IN  /\ vResult = "invalid"
                    /\ lineNum = k
                    /\ errorOut.pre = ReportFor(c)
                    /\ c <= 6 => errorOut.arg = to_string(k)
                    /\ c = 1 => errorOut.post = " does not start with ':'"
                    /\ c = 3 => errorOut.post = " too short."

\* the second line has a wrong checksum and a record type above 05, and a
\* further line follows it: the checksum mismatch is what was reported
C3_Witness ==
    /\ ValidateDone
    /\ Len(file) = 3
    /\ lineNum = 2
    /\ Checks(file, 2)[5] /\ Checks(file, 2)[6]
    /\ errorOut = ChecksumError(2)

-----------------------------------------------------------------------------
\* the lines validateHexFile accepts as the first line of a file
AcceptedLines == {l \in LineFamily : ValidateLine(l, 1, FALSE, 0, {}).err = <<>>}

\* l is b with one hex digit changed to a hex digit of another value
OneDigitChanged(b, l) ==
    /\ Len(b) = Len(l)
    /\ \E i \in 2..Len(b) :
          /\ \A j \in 1..Len(b) : j # i => b[j] = l[j]
          /\ b[i] \in HexChars /\ l[i] \in HexChars
          /\ HexValues[b[i]] # HexValues[l[i]]

\* the texts of the malformed-record failures
MalformedReports == {ReportFor(c) : c \in 1..6}

(* C9: checksum rule.  A line with the shape of a record passes            *)
(* validateLineChecksum exactly when its bytes (byte count, address,       *)
(* record type, payload, checksum) sum to 0 modulo 256, and validateHexFile *)
(* reports the checksum mismatch for it exactly when they do not; and a    *)
(* line that differs from an accepted line in one hex digit, changed to    *)
(* another value, is refused with a malformed-record failure.              *)
C9_ChecksumRule ==
    /\ \A k \in 1..Len(file) :
          LET t == Stripped(file[k])
          IN  IsRecord(t) =>
                 /\ validateLineChecksum(t) <=> (ByteSum(t) % 256 = 0)
                 /\ (ValidateDone /\ lineNum = k) =>
                       ((errorOut = ChecksumError(k)) <=> (ByteSum(t) % 256 # 0))
    /\ (ValidateDone /\ opens /\ Len(file) = 1) =>
          \A b \in AcceptedLines :
              OneDigitChanged(b, file[1]) =>
                 /\ vResult = "invalid"
                 /\ lineNum = 1
                 /\ errorOut.pre \in MalformedReports
                 /\ errorOut.arg = to_string(1)

\* an accepted data record with one payload digit changed was refused for
\* its checksum
C9_Witness ==
    /\ ValidateDone
    /\ DataLine \in AcceptedLines
    /\ file = <<WithChar(DataLine, 10, "B")>>
    /\ OneDigitChanged(DataLine, file[1])
    /\ errorOut = ChecksumError(1)

-----------------------------------------------------------------------------
\* l is b cut short or b with characters appended
PaddedOrTruncated(b, l) ==
    /\ l # b
    /\ \/ Len(l) < Len(b) /\ l = SubSeq(b, 1, Len(l))
       \/ Len(l) > Len(b) /\ b = SubSeq(l, 1, Len(b))

(* C10 as stated: every padding or truncation of a record declaring        *)
(* byteCount = 0 fails with the length-mismatch error (taken here only for *)
(* lines that still hold the byte-count field).                            *)
C10_PaddingOrTruncationIsLengthMismatch ==
    (ValidateDone /\ opens /\ Len(file) = 1 /\ PaddedOrTruncated(EofLine, file[1])
        /\ HexAt(file[1], 1, 2))
    => (vResult = "invalid" /\ errorOut = LengthError(1))

(* C10: line-length boundary, amended.  Of a line that starts with ':' and *)
(* holds only hex digits after its trailing blanks, carriage returns and   *)
(* line feeds are removed: fewer than 11 characters fail with the          *)
(* too-short error; 11 or more fail with the length-mismatch error exactly *)
(* when the length is not 9 + 2*byteCount + 2.  So a record declaring      *)
(* byteCount = 0 is accepted only with exactly 11 characters left, and the *)
(* EOF record followed by blanks or a carriage return is accepted.         *)
C10_LengthBoundary ==
    (ValidateDone /\ opens /\ Len(file) = 1)
    => LET t == Stripped(file[1])
           hexLine == t # <<>> /\ t[1] = ":" /\ HexAt(t, 1, Len(t) - 1)
       IN  /\ (hexLine /\ Len(t) < 11) => (vResult = "invalid" /\ errorOut = ShortError(1))
           /\ (hexLine /\ Len(t) >= 11) =>
                 ((errorOut = LengthError(1)) <=> (Len(t) # 9 + 2 * ByteAt(t, 1) + 2))
           /\ (vResult = "valid" /\ ByteAt(t, 1) = 0) => Len(t) = 11
           /\ (t = EofLine) => vResult = "valid"

\* the EOF record with two more hex digits was refused for its length
C10_Witness ==
    /\ ValidateDone
    /\ file = <<EofLine \o <<"0", "0">> >>
    /\ errorOut = LengthError(1)

-----------------------------------------------------------------------------
\* parseIntelHex met an EOF record: a line that starts with ':' and has 01
\* as its record type
HasEofRecord(f) == \E k \in 1..Len(f) : f[k] # <<>> /\ f[k][1] = ":" /\ HexAt(f[k], 7, 2)
                                        /\ ByteAt(f[k], 7) = 1

(* C4: calculateFlashPagesUsed raises an error, and returns no page count, *)
(* when the file cannot be opened and when the input ends without an EOF   *)
(* record (type 01); taken here for the files that hold a data record.     *)
C4_RaisesWithoutEof ==
    (pc = "done" /\ ~HasEofRecord(file)
        /\ (opens => DataLines(file, Len(file)) # {}))
    => (pResult = "raised" /\ pagesUsed = 0)

-----------------------------------------------------------------------------
\* the page an address lies in, for a page size that divides 65536
PageOf(a, ps) == a[1] * (65536 \div ps) + a[2] \div ps

(* C7: flash-page count.  For a page size above 0, computePagesUsed gives  *)
(* 0 for the empty image and otherwise the page of the largest key minus   *)
(* the page of the smallest key plus 1, pages without a byte between them  *)
(* included: bytes at 0x0000 and 0x07FF with pages of 2048 bytes give 1,   *)
(* bytes at 0x0000 and 0x0800 give 2.                                      *)
C7_PageCount ==
    (pc = "done" /\ pResult = "returned")
    => LET keys == DOMAIN flashData
       IN  /\ keys = {} => pagesUsed = 0
           /\ \A lo \in keys : \A hi \in keys :
                 ((\A a \in keys : ~LessU32(a, lo) /\ ~LessU32(hi, a))
                  => pagesUsed = PageOf(hi, pageSize) - PageOf(lo, pageSize) + 1)
           /\ (keys = {<<0, 0>>, <<0, 2047>>} /\ pageSize = 2048) => pagesUsed = 1
           /\ (keys = {<<0, 0>>, <<0, 2048>>} /\ pageSize = 2048) => pagesUsed = 2

\* bytes at 0x0000 and 0x10000 only, pages of 2048 bytes: 33 pages
C7_Witness ==
    /\ pc = "done" /\ pResult = "returned"
    /\ DOMAIN flashData = {<<0, 0>>, <<1, 0>>}
    /\ pageSize = 2048
    /\ pagesUsed = 33

-----------------------------------------------------------------------------
\* the 16 addresses a .. a+15 are keys of m and hold the signature in order
SignatureAt(m, a) ==
    \A i \in 0..15 : AddU32(a, i) \in DOMAIN m /\ m[AddU32(a, i)] = kBootSig[i + 1]

Matches(m) == {a \in DOMAIN m : SignatureAt(m, a)}

\* a is the smallest of the addresses in S
Lowest(S, a) == a \in S /\ \A b \in S : ~LessU32(b, a)

\* every byte of the signature that is present at a .. a+15 matches, the
\* first one is present, and at least one is absent
GappedAt(m, a) ==
    /\ a \in DOMAIN m
    /\ \A i \in 0..15 : AddU32(a, i) \in DOMAIN m => m[AddU32(a, i)] = kBootSig[i + 1]
    /\ \E i \in 0..15 : AddU32(a, i) \notin DOMAIN m

(* C5: signature scan.  findPatternAddress succeeds exactly when some      *)
(* address a has all of a .. a+15 (modulo 2^32) among the keys of the      *)
(* image, holding the 16 signature bytes in order, and it returns the      *)
(* smallest such a; an address with one of its 16 places absent is never   *)
(* returned.                                                               *)
C5_SignatureScan ==
    [][ (pc = "x_scan") =>
           /\ (pc' = "x_version") <=> (Matches(mem) # {})
           /\ (pc' = "x_version") => Lowest(Matches(mem), sigAddr')
           /\ (pc' # "x_version") => (pc' = "calc" /\ xResult' = "false") ]_vars

\* the scan returned a match although a lower address holds the signature
\* with one byte absent
C5_Witness ==
    /\ pc = "x_version"
    /\ \E a \in DOMAIN mem : LessU32(a, sigAddr) /\ GappedAt(mem, a)
    /\ SignatureAt(mem, sigAddr)

(* C6: version extraction.  Given the image, extraction succeeds exactly   *)
(* when the signature occurs and the two addresses 16 and 17 after its     *)
(* lowest occurrence are keys of the image, and then major and minor are   *)
(* the bytes there; it fails on an image of fewer than 16 entries, and on  *)
(* an image with one signature run from which one of the 16 bytes is       *)
(* removed.                                                                *)
C6_VersionExtraction ==
    (pc = "calc" /\ xResult # "pending")
    => /\ (xResult = "true") <=>
             \E a \in Matches(mem) :
                 /\ Lowest(Matches(mem), a)
                 /\ AddU32(a, 16) \in DOMAIN mem
                 /\ AddU32(a, 17) \in DOMAIN mem
       /\ (xResult = "true") =>
             /\ Lowest(Matches(mem), sigAddr)
             /\ major = mem[AddU32(sigAddr, 16)]
             /\ minor = mem[AddU32(sigAddr, 17)]
       /\ (xResult = "false") => (major = -1 /\ minor = -1)
       /\ (Cardinality(DOMAIN mem) < 16) => xResult = "false"
       /\ \A s \in ScanStarts : \A i \in 0..15 :
             (mem = Removed(SigBlock(s, 18), {AddU32(s, i)})) => xResult = "false"

\* the signature at 0x8000 followed by 06 68: major 0x06, minor 0x68
C6_Witness ==
    /\ pc = "calc" /\ xResult = "true"
    /\ sigAddr = <<0, 32768>>
    /\ mem = SigBlock(<<0, 32768>>, 18)
    /\ major = 6 /\ minor = 104

-----------------------------------------------------------------------------
\* among the first n lines, every line that starts with ':' is written as the
\* record grammar says, and every type-04 record carries two bytes
GrammaticalPrefix(f, n) ==
    \A k \in 1..n :
        (f[k] # <<>> /\ f[k][1] = ":")
        => /\ IsRecord(f[k])
           /\ (TypeOf(f[k]) = 4 => ByteAt(f[k], 1) = 2)

\* the addresses (E << 16) | address16 + i of the data record at line k, E
\* being the value of the last type-04 record before line k
PlacedAt(f, k) ==
    {AddU32(<<UpperAt(f, k), 256 * ByteAt(f[k], 3) + ByteAt(f[k], 5)>>, i) :
        i \in 0..(ByteAt(f[k], 1) - 1)}

Placed(f, n) == UNION {PlacedAt(f, k) : k \in DataLines(f, n)}

(* C8: absolute-address reconstruction.  In the Validator and in both      *)
(* image builders, after any number of lines of a grammatical file, the    *)
(* addresses written are those of the data records read, each placed at    *)
(* (E << 16) | address16 with E the value of the most recent type-04       *)
(* record before it (0 if none): a data record under state 0x0001 lands at *)
(* 0x00010000 + address16 and not at address16, and the same data record   *)
(* placed before the type-04 record lands at address16.                    *)
C8_AbsoluteAddress ==
    /\ (pc = "v_loop" /\ GrammaticalPrefix(file, lineNum))
          => writtenAddresses = Placed(file, lineNum)
    /\ (pc = "m_loop" /\ GrammaticalPrefix(file, mLineNum))
          => DOMAIN mem = Placed(file, mLineNum)
    /\ (pc = "p_loop" /\ GrammaticalPrefix(file, pPos))
          => DOMAIN flashData = Placed(file, pPos)
    /\ (Len(file) >= 2 /\ file[1] = ExtOneLine /\ file[2] = DataLine)
          => /\ (pc = "v_loop" /\ lineNum = 2) => writtenAddresses = {<<1, 0>>, <<1, 1>>}
             /\ (pc = "m_loop" /\ mLineNum = 2) => DOMAIN mem = {<<1, 0>>, <<1, 1>>}
             /\ (pc = "p_loop" /\ pPos = 2) => DOMAIN flashData = {<<1, 0>>, <<1, 1>>}
    /\ (Len(file) >= 2 /\ file[1] = DataLine /\ file[2] = ExtOneLine)
          => /\ (pc = "v_loop" /\ lineNum = 2) => writtenAddresses = {<<0, 0>>, <<0, 1>>}
             /\ (pc = "m_loop" /\ mLineNum = 2) => DOMAIN mem = {<<0, 0>>, <<0, 1>>}
             /\ (pc = "p_loop" /\ pPos = 2) => DOMAIN flashData = {<<0, 0>>, <<0, 1>>}

\* the flash image builder has read a type-04 record of value 0x0001 and
\* then a data record at address16 = 0, after the two other passes ran
C8_Witness ==
    /\ pc = "p_loop" /\ pPos = 2
    /\ file[1] = ExtOneLine /\ file[2] = DataLine
    /\ <<1, 0>> \in DOMAIN flashData /\ <<0, 0>> \notin DOMAIN flashData
    /\ <<1, 0>> \in DOMAIN mem
    /\ vResult # "pending"

-----------------------------------------------------------------------------
\* a non-empty line whose first character is not ':'
IsText(l) == l # <<>> /\ l[1] # ":"

\* a line with nothing but blanks, tabs, carriage returns and line feeds
IsBlank(l) == \A i \in 1..Len(l) : l[i] \in {" ", "\t", "\r", "\n"}

\* parseIntelHex reads the line after pPos and goes on to the next with its
\* image and extended-address state as they were
FlashSkips ==
    /\ pc' = "p_loop" /\ pPos' = pPos + 1
    /\ UNCHANGED <<flashData, extendedLinearAddress, pResult>>

\* parseIntelHexToMap reads the line after mLineNum and goes on to the next
\* with its image and extended-address state as they were
MapSkips ==
    /\ pc' = "m_loop" /\ mLineNum' = mLineNum + 1
    /\ UNCHANGED <<mem, extLinear, sawEOF, mResult, xResult>>

\* parseIntelHexToMap returns false at the line after mLineNum, and so does
\* extractBootloaderVersionFromHex
MapFails ==
    /\ pc' = "calc" /\ mLineNum' = mLineNum + 1
    /\ mResult' = "false" /\ xResult' = "false"
    /\ UNCHANGED <<major, minor>>

(* C11 as stated: parseIntelHex and parseIntelHexToMap both pass over every *)
(* non-empty line that does not begin with ':' and go on to the next line.  *)
C11_BothPathsSkipText ==
    [][ /\ (pc = "p_loop" /\ pPos < Len(file) /\ IsText(file[pPos + 1])) => FlashSkips
        /\ (pc = "m_loop" /\ mLineNum < Len(file) /\ IsText(file[mLineNum + 1])) => MapSkips
      ]_vars

(* C11: lenient paths, amended.  parseIntelHex passes over every line that  *)
(* is empty or does not begin with ':' and goes on to the next line.        *)
(* parseIntelHexToMap passes over a line only when nothing is left of it    *)
(* after its trailing blanks are removed; a line that does not begin with   *)
(* ':' makes it return false.                                               *)
C11_LenientPaths ==
    [][ /\ (pc = "p_loop" /\ pPos < Len(file)
               /\ (file[pPos + 1] = <<>> \/ IsText(file[pPos + 1]))) => FlashSkips
        /\ (pc = "m_loop" /\ mLineNum < Len(file) /\ IsBlank(file[mLineNum + 1])) => MapSkips
        /\ (pc = "m_loop" /\ mLineNum < Len(file) /\ ~IsBlank(file[mLineNum + 1])
               /\ IsText(file[mLineNum + 1])) => MapFails
      ]_vars

\* parseIntelHex went past a line of text to a data record and stored it,
\* in a file on which parseIntelHexToMap had returned false at that line
C11_Witness ==
    /\ pc = "p_loop" /\ pPos = 2
    /\ file[1] = TextLine /\ file[2] = DataLine
    /\ DOMAIN flashData = {<<0, 0>>, <<0, 1>>}
    /\ mResult = "false" /\ mLineNum = 1 /\ mem = EmptyMap

-----------------------------------------------------------------------------
\* line k is a type-04 record whose payload is not two bytes, and a builder
\* that reads the file gets to it: the lines before it are records with a
\* good checksum, none of them the EOF record, or are empty
BadExtReached(f, k) ==
    /\ IsRecord(f[k]) /\ ByteSum(f[k]) % 256 = 0
    /\ TypeOf(f[k]) = 4 /\ ByteAt(f[k], 1) # 2
    /\ \A j \in 1..(k - 1) :
          \/ f[j] = <<>>
          \/ IsValidRecord(f[j]) /\ TypeOf(f[j]) # 1
                /\ (TypeOf(f[j]) = 4 => ByteAt(f[j], 1) = 2)

(* C12, the parseIntelHex half: a type-04 record whose payload is not       *)
(* exactly 2 bytes makes calculateFlashPagesUsed fail, and the              *)
(* extended-address state is not updated from it.                           *)
C12_BadExtPayloadFailsCalc ==
    /\ (pc = "done" /\ opens /\ \E k \in 1..Len(file) : BadExtReached(file, k))
          => (pResult = "raised" /\ pagesUsed = 0)
    /\ \A k \in 1..Len(file) :
          (pc = "p_loop" /\ pPos = k /\ BadExtReached(file, k))
          => extendedLinearAddress = UpperAt(file, k)

-----------------------------------------------------------------------------
\* the number a sequence of decimal digits writes, -1 if it is not one
RECURSIVE DecimalOf(_)
DecimalOf(d) ==
    LET digit(c) == CHOOSE v \in 0..9 : <<"0", "1", "2", "3", "4", "5", "6", "7", "8", "9">>[v + 1] = c
    IN  IF d = <<>> \/ \E i \in 1..Len(d) : d[i] \notin {"0", "1", "2", "3", "4", "5", "6", "7", "8", "9"}
        THEN -1
        ELSE IF Len(d) = 1 THEN digit(d[1])
        ELSE 10 * DecimalOf(SubSeq(d, 1, Len(d) - 1)) + digit(d[Len(d)])

\* the texts of validateHexFile after which a line number is written
LineTexts ==
    {"Line ", "Invalid hex character at line ", "Incorrect line length at line ",
     "Checksum mismatch at line ", "Unknown record type at line "}

\* the message names line n, counted from 1
NamesLine(msg, n) == msg.pre \in LineTexts /\ DecimalOf(msg.arg) = n

\* the verdict is invalid because of a line: the file opened and the
\* reason is not the missing EOF record
RefusedAtLine == ValidateDone /\ opens /\ vResult = "invalid" /\ errorOut # MissingEofError

(* C13 as stated: on every invalid verdict caused by a line, the reason     *)
(* reported names that line by its 1-indexed line number.                   *)
C13_EveryReasonNamesLine ==
    RefusedAtLine => NamesLine(errorOut, lineNum)

(* C13: failure localisation, amended.  The line that causes an invalid    *)
(* verdict is the last one read, lineNum, counted from 1 with every line   *)
(* before it, and it is the first line of the file failing a check.  The   *)
(* reason names it by that number when the failure is a missing colon or   *)
(* empty line, an invalid hex character, a too-short line, a length        *)
(* mismatch, a checksum mismatch or an unknown record type.  The           *)
(* multiple-EOF reason carries no line number, and the overlap reason      *)
(* carries the overlapping address in place of one.                        *)
C13_FailureLocalisation ==
    RefusedAtLine
    => /\ lineNum \in 1..Len(file)
       /\ FirstFailed(file, lineNum) # 0
       /\ \A j \in 1..(lineNum - 1) : FirstFailed(file, j) = 0
       /\ (FirstFailed(file, lineNum) <= 6) <=> NamesLine(errorOut, lineNum)
       /\ (FirstFailed(file, lineNum) = 7) <=> (errorOut = MultipleEofError)
       /\ (FirstFailed(file, lineNum) = 8) <=>
             /\ errorOut.pre = "Overlapping data at address 0x"
             /\ errorOut.post = ""
             /\ NumeralU32(errorOut.arg) \in RangeOf(file, lineNum)

\* the third line, after a data record and an inert record, has a wrong
\* checksum: the reason names line 3
C13_Witness ==
    /\ RefusedAtLine
    /\ lineNum = 3 /\ file[3] = BadSumTypeLine
    /\ errorOut.pre = "Checksum mismatch at line " /\ errorOut.arg = <<"3">>

-----------------------------------------------------------------------------
\* the first of the first n lines that is a record of type 01, 0 if none
FirstEof(f, n) ==
    LET eofs == {k \in 1..n : f[k] # <<>> /\ f[k][1] = ":" /\ HexAt(f[k], 7, 2)
                              /\ ByteAt(f[k], 7) = 1}
    IN  IF eofs = {} THEN 0 ELSE CHOOSE k \in eofs : \A j \in eofs : k <= j

\* the last data record among the first n lines that covers address a
LastWriter(f, n, a) ==
    LET ws == {k \in DataLines(f, n) : a \in PlacedAt(f, k)}
    IN  CHOOSE k \in ws : \A j \in ws : j <= k

\* the payload byte the data record at line k holds for address a
PayloadAt(f, k, a) ==
    LET base == <<UpperAt(f, k), 256 * ByteAt(f[k], 3) + ByteAt(f[k], 5)>>
        i    == CHOOSE x \in 0..(ByteAt(f[k], 1) - 1) : AddU32(base, x) = a
    IN  ByteAt(f[k], 9 + 2 * i)

\* the image the first n lines describe: every address a data record covers,
\* with the byte of the last data record covering it
ImageOf(f, n) == [a \in Placed(f, n) |-> PayloadAt(f, LastWriter(f, n, a), a)]

(* C14: the builders stop at EOF.  When parseIntelHexToMap returns true it *)
(* has read exactly the lines up to the first type-01 record, and when     *)
(* parseIntelHex returns on a file with a type-01 record it has read       *)
(* exactly the lines up to the first one; the image each returns is the    *)
(* image of those lines alone, so the lines after the first EOF record     *)
(* (data records, malformed lines, a second EOF record) change neither the *)
(* image nor the result, and they are not read later either.               *)
C14_BuilderStopsAtEof ==
    /\ (mResult = "true")
          => /\ pc \notin {"extract", "m_loop"}
             /\ mLineNum = FirstEof(file, Len(file))
             /\ mLineNum >= 1
             /\ mem = ImageOf(file, mLineNum)
    /\ (pc \in {"p_compute", "done"} /\ opens /\ pResult # "raised"
           /\ FirstEof(file, Len(file)) # 0)
          => /\ pPos = FirstEof(file, Len(file))
             /\ GrammaticalPrefix(file, pPos) => flashData = ImageOf(file, pPos)

\* both builders returned the image of the first data record, with the EOF
\* record on line 2 and another data record on line 3
C14_Witness ==
    /\ pc = "done" /\ pResult = "returned"
    /\ Len(file) = 3 /\ file[1] = DataLine /\ file[2] = EofLine /\ file[3] = DataEdgeLine
    /\ mResult = "true" /\ mLineNum = 2 /\ pPos = 2
    /\ DOMAIN mem = {<<0, 0>>, <<0, 1>>}
    /\ flashData = mem

-----------------------------------------------------------------------------
\* a data record the decoder accepts
IsData(l) == IsValidRecord(l) /\ TypeOf(l) = 0

(* C15: permissive overwrite.  On a data record the builders never fail,   *)
(* whether or not it covers addresses already written: each goes on to the *)
(* next line with the image of the lines read so far, whose keys are the   *)
(* addresses the data records read cover and whose byte at each address is *)
(* that of the last data record covering it.                               *)
C15_LastWriterWins ==
    [][ /\ (pc = "m_loop" /\ mLineNum < Len(file) /\ IsData(file[mLineNum + 1]))
           => /\ pc' = "m_loop"
              /\ mem' = ImageOf(file, mLineNum + 1)
              /\ DOMAIN mem' = (DOMAIN mem) \cup PlacedAt(file, mLineNum + 1)
              /\ \A a \in PlacedAt(file, mLineNum + 1) :
                    mem'[a] = PayloadAt(file, mLineNum + 1, a)
        /\ (pc = "p_loop" /\ pPos < Len(file) /\ IsData(file[pPos + 1])
               /\ GrammaticalPrefix(file, pPos))
           => /\ pc' = "p_loop"
              /\ flashData' = ImageOf(file, pPos + 1)
              /\ DOMAIN flashData' = (DOMAIN flashData) \cup PlacedAt(file, pPos + 1)
              /\ \A a \in PlacedAt(file, pPos + 1) :
                    flashData'[a] = PayloadAt(file, pPos + 1, a)
      ]_vars

\* AA BB at 0x0000, then CC at 0x0000: the image holds CC and BB
C15_Witness ==
    /\ pc = "m_loop" /\ mLineNum = 2
    /\ file[1] = DataLine /\ file[2] = DataLowLine
    /\ DOMAIN mem = {<<0, 0>>, <<0, 1>>}
    /\ mem[<<0, 0>>] = 204 /\ mem[<<0, 1>>] = 187

-----------------------------------------------------------------------------
\* a record the decoder accepts, of type 02, 03 or 05
IsInert(l) == IsValidRecord(l) /\ TypeOf(l) \in {2, 3, 5}

\* a line that every pass takes for a type-04 record
IsExt(l) == l # <<>> /\ l[1] = ":" /\ HexAt(l, 7, 2) /\ ByteAt(l, 7) = 4

(* C16: inert records and the extended-address frame.  A record of type    *)
(* 02, 03 or 05 is read by the Validator and by both builders without any  *)
(* change to the written-address set, the EOF flags, the images and the    *)
(* extended-address states, and without ending the pass.  Each pass starts *)
(* with its extended-address state at 0, and the state changes only on a   *)
(* type-04 record.                                                         *)
C16_InertFrame ==
    [][ /\ (pc = "v_loop" /\ lineNum < Len(file) /\ IsInert(file[lineNum + 1]))
           => /\ pc' = "v_loop" /\ lineNum' = lineNum + 1
              /\ UNCHANGED <<writtenAddresses, eofSeen, extAddr, errorOut, vResult>>
        /\ (pc = "m_loop" /\ mLineNum < Len(file) /\ IsInert(file[mLineNum + 1]))
           => /\ pc' = "m_loop" /\ mLineNum' = mLineNum + 1
              /\ UNCHANGED <<mem, sawEOF, extLinear, mResult>>
        /\ (pc = "p_loop" /\ pPos < Len(file) /\ IsInert(file[pPos + 1]))
           => /\ pc' = "p_loop" /\ pPos' = pPos + 1
              /\ UNCHANGED <<flashData, extendedLinearAddress, pResult>>
        /\ (pc # "v_loop" /\ pc' = "v_loop") => extAddr' = 0
        /\ (pc # "m_loop" /\ pc' = "m_loop") => extLinear' = 0
        /\ (pc # "p_loop" /\ pc' = "p_loop") => extendedLinearAddress' = 0
        /\ (extAddr' # extAddr) => (pc = "v_loop" /\ IsExt(file[lineNum + 1]))
        /\ (extLinear' # extLinear) => (pc = "m_loop" /\ IsExt(file[mLineNum + 1]))
        /\ (extendedLinearAddress' # extendedLinearAddress)
              => (pc = "p_loop" /\ IsExt(file[pPos + 1]))
      ]_vars

\* after a type-04 record of value 0x0001 and a type-05 record whose payload
\* reads 0x00010000, the data record at 0xFFFF went to 0x0001FFFF and
\* 0x00020000 in the Validator and in parseIntelHex
C16_Witness ==
    /\ pc = "p_loop" /\ pPos = 3
    /\ file = <<ExtOneLine, Inert05Line, DataEdgeLine>>
    /\ extendedLinearAddress = 1 /\ extAddr = 1
    /\ DOMAIN flashData = {<<1, 65535>>, <<2, 0>>}
    /\ writtenAddresses = DOMAIN flashData

-----------------------------------------------------------------------------
\* the address after a, modulo 2^32
NextAddr(a) == IF a[2] < 65535 THEN <<a[1], a[2] + 1>> ELSE <<(a[1] + 1) % 65536, 0>>

\* the i-th address after a
RECURSIVE NthAfter(_, _)
NthAfter(a, i) == IF i = 0 THEN a ELSE NextAddr(NthAfter(a, i - 1))

\* the base address of the data record at line k
BaseOf(f, k) == <<UpperAt(f, k), 256 * ByteAt(f[k], 3) + ByteAt(f[k], 5)>>

\* the image of the first n lines with the i-th payload byte of each data
\* record at the i-th address after its base, later records over earlier
RECURSIVE SteppedImage(_, _)
SteppedImage(f, n) ==
    IF n = 0 THEN EmptyMap
    ELSE LET before == SteppedImage(f, n - 1)
             own    == {NthAfter(BaseOf(f, n), i) : i \in 0..(ByteAt(f[n], 1) - 1)}
         IN  IF n \notin DataLines(f, n) THEN before
             ELSE [a \in (DOMAIN before) \cup own |->
                      IF a \in own
                      THEN ByteAt(f[n], 9 + 2 * (CHOOSE i \in 0..(ByteAt(f[n], 1) - 1) :
                                                     NthAfter(BaseOf(f, n), i) = a))
                      ELSE before[a]]

(* C20: address arithmetic width.  In the Validator and in both builders   *)
(* the i-th payload byte of a data record goes to the i-th address after   *)
(* the record's base, counted modulo 2^32: the two bytes of a record at    *)
(* address16 0xFFFF go to 0x0000FFFF and 0x00010000 under state 0, and to  *)
(* 0xFFFFFFFF and 0x00000000 under state 0xFFFF.  The Validator's set and  *)
(* the builders' images hold the same addresses for the same lines.        *)
C20_AddressWidth ==
    /\ (pc = "v_loop" /\ GrammaticalPrefix(file, lineNum))
          => writtenAddresses = DOMAIN SteppedImage(file, lineNum)
    /\ (pc = "m_loop" /\ GrammaticalPrefix(file, mLineNum))
          => mem = SteppedImage(file, mLineNum)
    /\ (pc = "p_loop" /\ GrammaticalPrefix(file, pPos))
          => flashData = SteppedImage(file, pPos)
    /\ (Len(file) >= 1 /\ file[1] = DataEdgeLine)
          => /\ (pc = "v_loop" /\ lineNum = 1) => writtenAddresses = {<<0, 65535>>, <<1, 0>>}
             /\ (pc = "m_loop" /\ mLineNum = 1) => DOMAIN mem = {<<0, 65535>>, <<1, 0>>}
             /\ (pc = "p_loop" /\ pPos = 1) => DOMAIN flashData = {<<0, 65535>>, <<1, 0>>}
    /\ (Len(file) >= 2 /\ file[1] = ExtTopLine /\ file[2] = DataEdgeLine)
          => /\ (pc = "v_loop" /\ lineNum = 2) => writtenAddresses = {<<65535, 65535>>, <<0, 0>>}
             /\ (pc = "m_loop" /\ mLineNum = 2) => DOMAIN mem = {<<65535, 65535>>, <<0, 0>>}
             /\ (pc = "p_loop" /\ pPos = 2) => DOMAIN flashData = {<<65535, 65535>>, <<0, 0>>}

\* under state 0xFFFF the record at 0xFFFF put DD at 0xFFFFFFFF and EE at 0,
\* in parseIntelHex as in the Validator
C20_Witness ==
    /\ pc = "p_loop" /\ pPos = 2
    /\ file[1] = ExtTopLine /\ file[2] = DataEdgeLine
    /\ DOMAIN flashData = {<<65535, 65535>>, <<0, 0>>}
    /\ flashData[<<65535, 65535>>] = 221 /\ flashData[<<0, 0>>] = 238
    /\ <<0, 0>> \in writtenAddresses /\ <<65535, 65535>> \in writtenAddresses

-----------------------------------------------------------------------------
\* the type-04 records among the first n lines whose byte count is not 2
OddExtLines(f, n) ==
    {k \in 1..n : IsRecord(Stripped(f[k])) /\ TypeOf(Stripped(f[k])) = 4
                  /\ ByteAt(Stripped(f[k]), 1) # 2}

\* the data records among the first n lines that cover address a
WritersOf(f, n, a) == {k \in DataLines(f, n) : a \in RangeOf(f, k)}

(* C17: agreement of the Validator and parseIntelHexToMap.  On a file the  *)
(* Validator accepts, whose type-04 records before the EOF record all have *)
(* byte count 2, parseIntelHexToMap returns true; the keys of its image    *)
(* are the addresses of the data records before the EOF record, all of     *)
(* them among the addresses the Validator recorded, and each key holds the *)
(* byte of the one data record that covers it.  On a file the Validator    *)
(* accepts with a type-04 record of another byte count before the EOF      *)
(* record, parseIntelHexToMap returns false.                               *)
C17_ValidatorBuilderAgree ==
    (vResult = "valid" /\ mResult # "pending")
    => LET eof == FirstEof(file, Len(file))
       IN  IF OddExtLines(file, eof) = {}
           THEN /\ mResult = "true"
                /\ DOMAIN mem = Covered(file, eof)
                /\ DOMAIN mem \subseteq writtenAddresses
                /\ writtenAddresses = Covered(file, Len(file))
                /\ \A a \in DOMAIN mem :
                      /\ Cardinality(WritersOf(file, Len(file), a)) = 1
                      /\ \A k \in WritersOf(file, eof, a) : mem[a] = PayloadAt(file, k, a)
           ELSE mResult = "false"

\* a file the Validator accepts with a data record after its EOF record: the
\* image holds the two addresses before the EOF record, the Validator's set
\* those and the two after it
C17_Witness ==
    /\ vResult = "valid" /\ mResult = "true"
    /\ file = <<DataLine, EofLine, DataEdgeLine>>
    /\ DOMAIN mem = {<<0, 0>>, <<0, 1>>}
    /\ mem[<<0, 0>>] = 170 /\ mem[<<0, 1>>] = 187
    /\ writtenAddresses = {<<0, 0>>, <<0, 1>>, <<0, 65535>>, <<1, 0>>}

-----------------------------------------------------------------------------
\* the lines after line e that fail a check of the Validator
BadAfter(f, e) == {k \in (e + 1)..Len(f) : FirstFailed(f, k) # 0}

(* C18: the Validator keeps checking after EOF.  On a file whose lines up  *)
(* to its first EOF record are accepted, the Validator reads on: the       *)
(* verdict is valid exactly when every later line passes every check, the  *)
(* overlap check against the records before the EOF record included, and   *)
(* then all lines were read and the data records after the EOF record are  *)
(* in the written-address set.  Otherwise the file is refused at the first *)
(* later line that fails, with that line's reason; a line that is blank or *)
(* holds only blanks and line ends is refused as not starting with ':'.    *)
C18_ChecksAfterEof ==
    (ValidateDone /\ opens /\ FirstEof(file, Len(file)) # 0
        /\ CleanPrefix(file, FirstEof(file, Len(file))))
    => LET e   == FirstEof(file, Len(file))
           bad == BadAfter(file, e)
       IN  IF bad = {}
           THEN /\ vResult = "valid" /\ errorOut = PriorError
                /\ lineNum = Len(file)
                /\ writtenAddresses = Covered(file, Len(file))
           ELSE LET k == CHOOSE x \in bad : \A y \in bad : x <= y
                IN  /\ vResult = "invalid"
                    /\ lineNum = k /\ k > e
                    /\ errorOut.pre = ReportFor(FirstFailed(file, k))
                    /\ Stripped(file[k]) = <<>> => errorOut = ColonError(k)
                    /\ Overlaps(file, k) /\ IsValidRecord(Stripped(file[k]))
                          => errorOut.pre = "Overlapping data at address 0x"

\* a data record, the EOF record, then a line of a blank and a carriage
\* return: refused at line 3
C18_Witness ==
    /\ ValidateDone /\ vResult = "invalid"
    /\ file = <<DataLine, EofLine, CrLine>>
    /\ lineNum = 3 /\ eofSeen
    /\ errorOut = ColonError(3)

-----------------------------------------------------------------------------
\* the positions inside validateHexFile and extractBootloaderVersionFromHex
InValidate == pc \in {"validate", "v_loop"}

InExtract == pc \in {"extract", "m_loop", "x_scan", "x_version"}

(* C19: outputs untouched on the other outcome.  No step of                *)
(* extractBootloaderVersionFromHex changes major or minor unless it is the *)
(* step that returns true, which stores the two bytes after the signature; *)
(* a step that returns false (open failure, refused line, missing EOF      *)
(* record, no signature, missing version byte) leaves both as they were.   *)
(* No step of validateHexFile changes errorOut unless it is a step that    *)
(* returns false; the step that returns true leaves it as it was.          *)
C19_OutputsUntouched ==
    [][ /\ (InExtract /\ xResult' # "true") => UNCHANGED <<major, minor>>
        /\ (InExtract /\ xResult' = "true")
              => /\ pc = "x_version"
                 /\ major' = mem[AddU32(sigAddr, 16)]
                 /\ minor' = mem[AddU32(sigAddr, 17)]
        /\ (InValidate /\ vResult' # "invalid") => UNCHANGED errorOut
        /\ (InValidate /\ vResult' = "invalid") => errorOut' # errorOut
        /\ (~InExtract) => UNCHANGED <<major, minor>>
        /\ (~InValidate) => UNCHANGED errorOut
      ]_vars

\* the file holds the signature and the major byte but no minor byte: the
\* extraction returned false with major and minor as the caller left them,
\* after the Validator returned true with errorOut as the caller left it
C19_Witness ==
    /\ pc = "calc" /\ xResult = "false"
    /\ file = <<SigMajorLine, EofLine>>
    /\ mResult = "true" /\ sigAddr = <<0, 32768>>
    /\ <<0, 32784>> \in DOMAIN mem /\ <<0, 32785>> \notin DOMAIN mem
    /\ major = -1 /\ minor = -1
    /\ vResult = "valid" /\ errorOut = PriorError

=============================================================================
